---- MODULE Spec2Model ----
(***************************************************************************)
(* Nearmap cost estimator (main.py): the submit handler of the Streamlit   *)
(* script, the primary pricing call, the fallback area estimator and the   *)
(* fallback cost loop with its cap on contributing aiPacks resources.      *)
(*                                                                         *)
(* Representation                                                          *)
(*  - a resource key "ns:product" is the pair <<ns, product>>, i.e. the    *)
(*    list that resource.split(":") yields;                                *)
(*  - credits are kept in tenths of a credit (7.5 credits = 75), areas in  *)
(*    whole square metres, so unit_cost*area_sqm/1000 is the rational      *)
(*    (unit_cost * area_sqm) / 10000 and round() is exact;                 *)
(*  - st.session_state is a function whose domain is the set of keys that  *)
(*    are present.                                                         *)
(***************************************************************************)
EXTENDS Integers, Sequences, FiniteSets, TLC

(***************************************************************************)
(* Bounds of the model                                                     *)
(***************************************************************************)
\* number of aiPacks keys (the first ones of the catalog) a selection may hold
NumAiKeys == 8

(***************************************************************************)
(* NearMapHelper.get_all_resources: the priced catalog                     *)
(***************************************************************************)
\* an entry with its two credit columns exchanged
Entry_swapped(single, all) ==
    ("Credits (single survey)" :> all) @@ ("Credits (all survey data)" :> single)

Entry(single, all) ==
    ("Credits (single survey)" :> single) @@ ("Credits (all survey data)" :> all)

namespaces ==
    <<"raster", "aiPacks", "trueOrthoAiPacks", "aiImpactAssessment">>

resources ==
    ("raster" :> <<"Vert", "DetailDtm", "DetailDsm", "TrueOrtho", "North", "East", "South", "West">>) @@
    ("aiPacks" :> <<"building", "building_char", "construction", "debris", "pavement_marking", "poles", "pool", "postcat", "roof_char", "roof_cond", "roof_objects", "solar", "surface_permeability", "surfaces", "trampoline", "vegetation">>) @@
    ("trueOrthoAiPacks" :> <<"building", "building_char">>) @@
    ("aiImpactAssessment" :> <<"postcat">>)

all_tuples_keys ==
    << <<"raster", "Vert">>,
       <<"raster", "DetailDtm">>,
       <<"raster", "DetailDsm">>,
       <<"raster", "TrueOrtho">>,
       <<"raster", "North">>,
       <<"raster", "East">>,
       <<"raster", "South">>,
       <<"raster", "West">>,
       <<"aiPacks", "building">>,
       <<"aiPacks", "building_char">>,
       <<"aiPacks", "construction">>,
       <<"aiPacks", "debris">>,
       <<"aiPacks", "pavement_marking">>,
       <<"aiPacks", "poles">>,
       <<"aiPacks", "pool">>,
       <<"aiPacks", "postcat">>,
       <<"aiPacks", "roof_char">>,
       <<"aiPacks", "roof_cond">>,
       <<"aiPacks", "roof_objects">>,
       <<"aiPacks", "solar">>,
       <<"aiPacks", "surface_permeability">>,
       <<"aiPacks", "surfaces">>,
       <<"aiPacks", "trampoline">>,
       <<"aiPacks", "vegetation">>,
       <<"trueOrthoAiPacks", "building">>,
       <<"trueOrthoAiPacks", "building_char">>,
       <<"aiImpactAssessment", "postcat">> >>

\* a catalog in which aiPacks:building costs more than the other aiPacks keys
all_tuples_uneven ==
    [k \in {all_tuples_keys[n] : n \in 1..Len(all_tuples_keys)} |->
        IF k = <<"aiPacks", "building">> THEN Entry(60, 90)
        ELSE IF k[1] = "raster" THEN Entry(100, 150)
        ELSE IF k[1] = "aiImpactAssessment" THEN Entry(350, 525)
        ELSE Entry(50, 75)]

all_tuples ==
    (<<"raster", "Vert">> :> Entry(100, 150)) @@
    (<<"raster", "DetailDtm">> :> Entry(200, 300)) @@
    (<<"raster", "DetailDsm">> :> Entry(300, 450)) @@
    (<<"raster", "TrueOrtho">> :> Entry(200, 300)) @@
    (<<"raster", "North">> :> Entry(40, 60)) @@
    (<<"raster", "East">> :> Entry(40, 60)) @@
    (<<"raster", "South">> :> Entry(40, 60)) @@
    (<<"raster", "West">> :> Entry(40, 60)) @@
    (<<"aiPacks", "building">> :> Entry(50, 75)) @@
    (<<"aiPacks", "building_char">> :> Entry(50, 75)) @@
    (<<"aiPacks", "construction">> :> Entry(50, 75)) @@
    (<<"aiPacks", "debris">> :> Entry(50, 75)) @@
    (<<"aiPacks", "pavement_marking">> :> Entry(50, 75)) @@
    (<<"aiPacks", "poles">> :> Entry(50, 75)) @@
    (<<"aiPacks", "pool">> :> Entry(50, 75)) @@
    (<<"aiPacks", "postcat">> :> Entry(50, 75)) @@
    (<<"aiPacks", "roof_char">> :> Entry(50, 75)) @@
    (<<"aiPacks", "roof_cond">> :> Entry(50, 75)) @@
    (<<"aiPacks", "roof_objects">> :> Entry(50, 75)) @@
    (<<"aiPacks", "solar">> :> Entry(50, 75)) @@
    (<<"aiPacks", "surface_permeability">> :> Entry(50, 75)) @@
    (<<"aiPacks", "surfaces">> :> Entry(50, 75)) @@
    (<<"aiPacks", "trampoline">> :> Entry(50, 75)) @@
    (<<"aiPacks", "vegetation">> :> Entry(50, 75)) @@
    (<<"trueOrthoAiPacks", "building">> :> Entry(50, 75)) @@
    (<<"trueOrthoAiPacks", "building_char">> :> Entry(50, 75)) @@
    (<<"aiImpactAssessment", "postcat">> :> Entry(350, 525))

\* the copy of the catalog in nearmap_helper.py
nearmap_helper_all_tuples ==
    (<<"raster", "Vert">> :> Entry(100, 150)) @@
    (<<"raster", "DetailDtm">> :> Entry(200, 300)) @@
    (<<"raster", "DetailDsm">> :> Entry(300, 450)) @@
    (<<"raster", "TrueOrtho">> :> Entry(200, 300)) @@
    (<<"raster", "North">> :> Entry(40, 60)) @@
    (<<"raster", "East">> :> Entry(40, 60)) @@
    (<<"raster", "South">> :> Entry(40, 60)) @@
    (<<"raster", "West">> :> Entry(40, 60)) @@
    (<<"aiPacks", "building">> :> Entry(50, 75)) @@
    (<<"aiPacks", "building_char">> :> Entry(50, 75)) @@
    (<<"aiPacks", "construction">> :> Entry(50, 75)) @@
    (<<"aiPacks", "debris">> :> Entry(50, 75)) @@
    (<<"aiPacks", "pavement_marking">> :> Entry(50, 75)) @@
    (<<"aiPacks", "poles">> :> Entry(50, 75)) @@
    (<<"aiPacks", "pool">> :> Entry(50, 75)) @@
    (<<"aiPacks", "postcat">> :> Entry(50, 75)) @@
    (<<"aiPacks", "roof_char">> :> Entry(50, 75)) @@
    (<<"aiPacks", "roof_cond">> :> Entry(50, 75)) @@
    (<<"aiPacks", "roof_objects">> :> Entry(50, 75)) @@
    (<<"aiPacks", "solar">> :> Entry(50, 75)) @@
    (<<"aiPacks", "surface_permeability">> :> Entry(50, 75)) @@
    (<<"aiPacks", "surfaces">> :> Entry(50, 75)) @@
    (<<"aiPacks", "trampoline">> :> Entry(50, 75)) @@
    (<<"aiPacks", "vegetation">> :> Entry(50, 75)) @@
    (<<"trueOrthoAiPacks", "building">> :> Entry(50, 75)) @@
    (<<"trueOrthoAiPacks", "building_char">> :> Entry(50, 75)) @@
    (<<"aiImpactAssessment", "postcat">> :> Entry(350, 525))

\* 'namespaces' of the copy in nearmap_helper.py
nearmap_helper_namespaces ==
    <<"raster", "aiPacks", "trueOrthoAiPacks", "aiImpactAssessment">>

\* 'resources' of the copy in nearmap_helper.py
nearmap_helper_resources ==
    ("raster" :> <<"Vert", "DetailDtm", "DetailDsm", "TrueOrtho", "North", "East", "South", "West">>) @@
    ("aiPacks" :> <<"building", "building_char", "construction", "debris", "pavement_marking", "poles", "pool", "postcat", "roof_char", "roof_cond", "roof_objects", "solar", "surface_permeability", "surfaces", "trampoline", "vegetation">>) @@
    ("trueOrthoAiPacks" :> <<"building", "building_char">>) @@
    ("aiImpactAssessment" :> <<"postcat">>)

Range(s) == {s[n] : n \in 1..Len(s)}

(***************************************************************************)
(* Pure helpers of the fallback cost loop                                  *)
(***************************************************************************)
\* resource.split(":") on a key held as its list of parts
split(resource) == resource

\* round() that takes a tie to the larger integer
round_half_up(n, d) == (2 * n + d) \div (2 * d)

\* Python 3 round() of the rational n/d (d > 0): nearest integer, ties to even
round(n, d) ==
    LET q == n \div d
        r == n - q * d
    IN  IF 2 * r < d THEN q
        ELSE IF 2 * r > d THEN q + 1
        ELSE IF q % 2 = 0 THEN q ELSE q + 1

\* a contribution that bills at least 1000 m²
contribution_min_billing(unit_cost, area) ==
    (2 * unit_cost * (IF area < 1000 THEN 1000 ELSE area) + 10000) \div 20000

\* round(unit_cost*area_sqm/1000), unit_cost in tenths of a credit
contribution(unit_cost, area) == round(unit_cost * area, 10000)

\* all_resources.get(resource, free entry): a missing key counts as 0
lookup_default(resource) ==
    IF resource \in DOMAIN all_tuples
    THEN [raised |-> FALSE, value |-> all_tuples[resource]]
    ELSE [raised |-> FALSE, value |-> Entry(0, 0)]

\* all_resources[resource]: a dict subscript raises KeyError on a missing key
lookup(resource) ==
    IF resource \in DOMAIN all_tuples
    THEN [raised |-> FALSE, value |-> all_tuples[resource]]
    ELSE [raised |-> TRUE, value |-> "KeyError"]

\* the two credit columns taken the wrong way round
unit_cost_of_swapped(resource_object, mode) ==
    IF mode = "single" THEN resource_object["Credits (all survey data)"]
    ELSE resource_object["Credits (single survey)"]

\* the conditional expression that picks the unit cost
unit_cost_of(resource_object, mode) ==
    IF mode = "single" THEN resource_object["Credits (single survey)"]
    ELSE resource_object["Credits (all survey data)"]

\* "AiPacks" not in namespace, without regard to case
not_aiPacks_substring(namespace) ==
    namespace \notin {"aiPacks", "trueOrthoAiPacks"}

\* namespace != "aiPacks"
not_aiPacks(namespace) == namespace # "aiPacks"

\* ai_counter <= 7
under_cap_inclusive(counter) == counter <= 7

\* ai_counter < 7
under_cap(counter) == counter < 7

\* total_cost = amount
accumulate_assign(total, amount) == amount

\* total_cost += amount
accumulate(total, amount) == total + amount

\* the for loop from its n-th key on, as a function of the list it is given:
\* the total it ends with, or the KeyError of the first key without an entry
RECURSIVE loop_from(_, _, _, _, _, _)
loop_from(keys, n, total, counter, mode, area) ==
    IF n > Len(keys) THEN [raised |-> FALSE, value |-> total]
    ELSE LET found == lookup(keys[n]) IN
         IF found.raised THEN found
         ELSE LET namespace == split(keys[n])[1]
                  amount == contribution(unit_cost_of(found.value, mode), area)
              IN  IF not_aiPacks(namespace)
                  THEN loop_from(keys, n + 1, accumulate(total, amount),
                                 counter, mode, area)
                  ELSE IF namespace = "aiPacks" /\ under_cap(counter)
                  THEN loop_from(keys, n + 1, accumulate(total, amount),
                                 counter + 1, mode, area)
                  ELSE loop_from(keys, n + 1, total, counter, mode, area)

\* total_cost = 0; ai_counter = 0; for resource in selected_resources: ...
total_cost_of(keys, mode, area) == loop_from(keys, 1, 0, 0, mode, area)

(***************************************************************************)
(* GeoJSON features.  The coordinates of a geometry are abstracted to what *)
(* the estimator gets out of them: whether the local Albers projection can *)
(* be built and applied, and the planar area of the reprojected polygon    *)
(* (shell area minus hole areas).                                          *)
(***************************************************************************)
Polygon(a) ==
    [type |-> "Feature",
     geometry |-> [type |-> "Polygon",
                   coordinates |-> [projectable |-> TRUE, area |-> a]]]

\* a polygon with interior rings: shapely subtracts the area the interior
\* rings enclose from the area the exterior ring encloses, and shape() does
\* not check that the interior rings lie inside the exterior one
PolygonWithHoles(shell, holes) == Polygon(shell - holes)

\* a feature without a 'geometry' key
NoGeometry == [type |-> "Feature"]

\* a geometry without 'coordinates'
NoCoordinates == [type |-> "Feature", geometry |-> [type |-> "Polygon"]]

\* a geometry whose centroid gives no valid projection
Unprojectable ==
    [type |-> "Feature",
     geometry |-> [type |-> "Polygon",
                   coordinates |-> [projectable |-> FALSE, area |-> 5000]]]

\* the body of the try block of estimate_area: the exception it raises, if any
try_area(geojson_feature) ==
    IF "geometry" \notin DOMAIN geojson_feature
    THEN [exc |-> "KeyError", value |-> 0]
    ELSE LET geometry == geojson_feature["geometry"] IN
         IF "coordinates" \notin DOMAIN geometry
         THEN [exc |-> "GeometryTypeError", value |-> 0]
         ELSE IF ~geometry["coordinates"]["projectable"]
         THEN [exc |-> "CRSError", value |-> 0]
         ELSE [exc |-> "none", value |-> geometry["coordinates"]["area"]]

\* estimate_area with except KeyError: other failures propagate
estimate_area_KeyErrorOnly(geojson_feature) ==
    LET t == try_area(geojson_feature) IN
    IF t.exc = "none" THEN [raised |-> FALSE, value |-> t.value]
    ELSE IF t.exc = "KeyError" THEN [raised |-> FALSE, value |-> 0]
    ELSE [raised |-> TRUE, value |-> t.exc]

\* OtherHelpers.estimate_area: except Exception turns every failure into 0.0
estimate_area(geojson_feature) ==
    LET t == try_area(geojson_feature) IN
    IF t.exc = "none" THEN [raised |-> FALSE, value |-> t.value]
    ELSE [raised |-> FALSE, value |-> 0]

(***************************************************************************)
(* The primary pricing call.  A text (a response body, an exception        *)
(* message) is kept as what the handler reads from it: for a body, whether *)
(* it is blank, whether it parses as JSON and to what, and where the word  *)
(* INVALID_AREA first occurs in it ("early": within the first 200          *)
(* characters, "late": after them); a message is the list of its parts.    *)
(***************************************************************************)
Body(kind, token, value) == [kind |-> kind, token |-> token, value |-> value]

\* a literal part of a message
Lit(s) == [token |-> "none", shown |-> s]

\* {response.text} inside an f-string
Text(text) == [token |-> text.token, shown |-> "response.text"]

\* {response.text[:200]} inside an f-string
Text200(text) ==
    [token |-> IF text.token = "early" THEN "early" ELSE "none",
     shown |-> "response.text[:200]"]

\* NearMapHelper.get_data once requests.get has returned
get_data(resp) ==
    IF resp.status_code # 200
    THEN [raised |-> TRUE,
          value |-> <<Lit("API request failed with status code "),
                      Lit(ToString(resp.status_code)), Lit(": "),
                      Text(resp.text)>>]
    ELSE IF resp.text.kind = "blank"
    THEN [raised |-> TRUE, value |-> <<Lit("API returned empty response")>>]
    ELSE IF resp.text.kind # "json"
    THEN [raised |-> TRUE,
          value |-> <<Lit("Failed to parse JSON response. Response content: "),
                      Text200(resp.text), Lit("...")>>]
    ELSE [raised |-> FALSE, value |-> resp.text.value]

\* post_data with the check of the body made before the check of the status
post_data_body_first(resp) ==
    IF resp.text.kind = "blank"
    THEN [raised |-> TRUE, value |-> <<Lit("API returned empty response")>>]
    ELSE IF resp.status_code # 200
    THEN [raised |-> TRUE,
          value |-> <<Lit("API request failed with status code "),
                      Lit(ToString(resp.status_code)), Lit(": "),
                      Text(resp.text)>>]
    ELSE IF resp.text.kind # "json"
    THEN [raised |-> TRUE,
          value |-> <<Lit("Failed to parse JSON response. Response content: "),
                      Text200(resp.text), Lit("...")>>]
    ELSE [raised |-> FALSE, value |-> resp.text.value]

\* NearMapHelper.post_data once requests.post has returned
post_data(resp) ==
    IF resp.status_code # 200
    THEN [raised |-> TRUE,
          value |-> <<Lit("API request failed with status code "),
                      Lit(ToString(resp.status_code)), Lit(": "),
                      Text(resp.text)>>]
    ELSE IF resp.text.kind = "blank"
    THEN [raised |-> TRUE, value |-> <<Lit("API returned empty response")>>]
    ELSE IF resp.text.kind # "json"
    THEN [raised |-> TRUE,
          value |-> <<Lit("Failed to parse JSON response. Response content: "),
                      Text200(resp.text), Lit("...")>>]
    ELSE [raised |-> FALSE, value |-> resp.text.value]

\* response["surveys"] returned in place of the cost
get_surveys(json) ==
    IF "surveys" \in DOMAIN json
    THEN [raised |-> FALSE, value |-> json["surveys"]]
    ELSE [raised |-> TRUE, value |-> <<Lit("'surveys'")>>]

\* NearMapHelper.get_cost_estimate
get_cost_estimate(json) ==
    IF "costOfTransaction" \in DOMAIN json
    THEN [raised |-> FALSE, value |-> json["costOfTransaction"]]
    ELSE [raised |-> TRUE, value |-> <<Lit("'costOfTransaction'")>>]

\* "INVALID_AREA" in str(e)
in_str_e(message) == \E n \in 1..Len(message) : message[n].token # "none"

\* "single" if dates_single else "all"
capture_mode(toggle) == IF toggle THEN "single" ELSE "all"

\* OtherHelpers.is_valid_json on the bytes of an uploaded file
is_valid_json(file) == file.valid

\* BoxDrawer._render_result before render() has been called
NotRendered == [is_dict |-> FALSE]

\* BoxDrawer._render_result after render(): the dict st_folium returns
st_folium(last) == [is_dict |-> TRUE, last_active_drawing |-> last]

\* last_feature_collection that passes on the last drawing as it arrives
last_feature_collection_unwrapped(render_result) ==
    IF ~render_result.is_dict THEN [none |-> TRUE, features |-> <<>>]
    ELSE LET last == render_result.last_active_drawing IN
         IF last.type = "None" THEN [none |-> TRUE, features |-> <<>>]
         ELSE [none |-> FALSE, features |-> <<last>>]

\* BoxDrawer.last_feature_collection
last_feature_collection(render_result) ==
    IF ~render_result.is_dict THEN [none |-> TRUE, features |-> <<>>]
    ELSE LET last == render_result.last_active_drawing IN
         IF last.type = "None" THEN [none |-> TRUE, features |-> <<>>]
         ELSE IF last.type = "Feature"
         THEN [none |-> FALSE, features |-> <<last>>]
         ELSE [none |-> FALSE,
               features |-> <<[type |-> "Feature", geometry |-> last]>>]

(***************************************************************************)
(* State                                                                   *)
(***************************************************************************)
VARIABLES
    api_key,             \* text input widget
    ticked,              \* the checkbox widgets that are on
    dates_single,        \* the "Latest capture only" toggle
    uploaded_file,       \* file uploader widget
    last_active_drawing, \* what the map widget reports
    session_state,       \* st.session_state
    pc,                  \* position of the script run
    selected_resources,  \* list built from the checkboxes
    exc,                 \* outcome of the try block of the submit handler
    total_cost, ai_counter, area_sqm, i,   \* locals of the fallback branch
    events,              \* calls made by the current submit, in order
    log,                 \* what each loop iteration did
    response,            \* what requests.post returned to the current submit
    payload,             \* the payload of the current submit's primary call
    shown,               \* what the dialogs of the current run displayed
    run_error,           \* exception that escaped the script run, if any
    peer,                \* the state of another session while it is not running
    active               \* which session the other variables belong to

widgets == <<api_key, ticked, dates_single, uploaded_file, last_active_drawing>>
locals == <<total_cost, ai_counter, area_sqm, i>>
call == <<response, payload>>
parked == <<peer, active>>
vars == <<api_key, ticked, dates_single, uploaded_file, last_active_drawing,
          session_state, pc, selected_resources, exc, total_cost, ai_counter,
          area_sqm, i, events, log, response, payload, shown, run_error,
          peer, active>>

Has(key) == key \in DOMAIN session_state

\* st.session_state[key] = value
Put(state, key, value) ==
    [k \in DOMAIN state \cup {key} |-> IF k = key THEN value ELSE state[k]]

\* st.session_state.pop(key)
Pop(state, key) == [k \in DOMAIN state \ {key} |-> state[k]]

(***************************************************************************)
(* The fallback branch of the submit handler                               *)
(***************************************************************************)
\* total_cost = 0; ai_counter = 0; area_sqm = estimate_area(geodata)
EstimateArea ==
    /\ pc = "fallback"
    /\ LET a == estimate_area(session_state["geodata"]) IN
       /\ events' = Append(events, "estimate_area")
       /\ total_cost' = 0
       /\ ai_counter' = 0
       /\ IF a.raised
          THEN /\ pc' = "crashed"
               /\ run_error' = a.value
               /\ area_sqm' = area_sqm
          ELSE /\ pc' = "catalog"
               /\ run_error' = run_error
               /\ area_sqm' = a.value
    /\ UNCHANGED <<parked, widgets, session_state, selected_resources, exc, i, log,
                   call, shown>>

\* all_resources = get_all_resources()['all_tuples']; the for statement starts
EnterLoop ==
    /\ pc = "catalog"
    /\ pc' = "loop"
    /\ i' = 0
    /\ log' = <<>>
    /\ events' = Append(events, "loop")
    /\ UNCHANGED <<parked, widgets, session_state, selected_resources, exc, total_cost,
                   ai_counter, area_sqm, call, shown, run_error>>

\* one iteration of: for resource in selected_resources
ForResource ==
    /\ pc = "loop"
    /\ i < Len(selected_resources)
    /\ LET resource == selected_resources[i + 1]
           found == lookup(resource)
       IN  IF found.raised
           THEN /\ pc' = "crashed"
                /\ run_error' = found.value
                /\ UNCHANGED <<parked, i, total_cost, ai_counter, log>>
           ELSE LET resource_object == found.value
                    namespace == split(resource)[1]
                    unit_cost == unit_cost_of(resource_object,
                                              session_state["dates_single"])
                    amount == contribution(unit_cost, area_sqm)
                IN  /\ pc' = "loop"
                    /\ run_error' = run_error
                    /\ i' = i + 1
                    /\ IF not_aiPacks(namespace)
                       THEN /\ total_cost' = accumulate(total_cost, amount)
                            /\ ai_counter' = ai_counter
                            /\ log' = Append(log, [unit_cost |-> unit_cost,
                                                   added |-> TRUE,
                                                   amount |-> amount])
                       ELSE IF namespace = "aiPacks" /\ under_cap(ai_counter)
                       THEN /\ ai_counter' = ai_counter + 1
                            /\ total_cost' = accumulate(total_cost, amount)
                            /\ log' = Append(log, [unit_cost |-> unit_cost,
                                                   added |-> TRUE,
                                                   amount |-> amount])
                       ELSE /\ UNCHANGED <<parked, total_cost, ai_counter>>
                            /\ log' = Append(log, [unit_cost |-> unit_cost,
                                                   added |-> FALSE,
                                                   amount |-> 0])
    /\ UNCHANGED <<parked, widgets, session_state, selected_resources, exc, area_sqm,
                   events, call, shown>>

\* st.session_state['cost'] = total_cost, then on to the rest of the script
StoreTotal(next) ==
    /\ pc = "loop"
    /\ i = Len(selected_resources)
    /\ session_state' = Put(session_state, "cost", total_cost)
    /\ events' = Append(events, "store")
    /\ pc' = next
    /\ UNCHANGED <<parked, widgets, selected_resources, exc, locals, log, call,
                   shown, run_error>>

\* OtherHelpers.seeResultModal, called when 'cost' is in the session state
seeResultModal ==
    /\ shown' = Append(shown, [dialog |-> "Estimation Outcome",
                               value |-> session_state["cost"]])
    /\ session_state' = Pop(session_state, "cost")

\* end of the script: if 'cost' in st.session_state: seeResultModal()
ResultModal ==
    /\ pc = "modal"
    /\ pc' = "end"
    /\ IF Has("cost") THEN seeResultModal
       ELSE UNCHANGED <<parked, session_state, shown>>
    /\ UNCHANGED <<parked, widgets, selected_resources, exc, locals, events, log,
                   call, run_error>>

(***************************************************************************)
(* The script run: every interaction with a widget reruns the script from  *)
(* the top; session_state and the widget values survive from run to run.   *)
(***************************************************************************)
\* the aiPacks keys of the model: the first NumAiKeys of the catalog
AiPool == {all_tuples_keys[n] : n \in 9..(8 + NumAiKeys)}

NoFile == [present |-> FALSE]

NoDrawing == [type |-> "None"]

NoJson == [parsed |-> FALSE]

NoResponse == [status_code |-> 0, text |-> Body("blank", "none", NoJson)]

NoPayload == [resources |-> <<>>, dates |-> "none", aoi |-> NoDrawing]

\* no other session is open
NoPeer == [present |-> FALSE]

FeatureCollection(features) ==
    [type |-> "FeatureCollection", features |-> features]

\* the files a user uploads: one that is not JSON, and collections
UploadFiles ==
    {[present |-> TRUE, valid |-> FALSE],
     [present |-> TRUE, valid |-> TRUE,
      json |-> FeatureCollection(<<Polygon(5000)>>)],
     [present |-> TRUE, valid |-> TRUE,
      json |-> FeatureCollection(<<Polygon(5000), Polygon(100)>>)],
     [present |-> TRUE, valid |-> TRUE,
      json |-> FeatureCollection(<<NoGeometry>>)]}

\* what the map reports as last_active_drawing once a polygon is drawn: a
\* Feature, or the bare geometry of one
Drawings == {Polygon(100), Polygon(100)["geometry"]}

\* the keys the user of Spec ticks and clears freely: two outside aiPacks and
\* the first aiPacks key of the catalog
TickPool ==
    {<<"raster", "Vert">>, <<"aiImpactAssessment", "postcat">>,
     <<"aiPacks", "building">>}

\* the aiPacks keys the user of Spec ticks one after the other, in catalog
\* order: the NumAiKeys keys that follow aiPacks:building
AiTickPool == {all_tuples_keys[n] : n \in 10..(9 + NumAiKeys)}

Response(status_code, text) == [status_code |-> status_code, text |-> text]

\* what requests.post does: it returns a response or raises
PostOutcomes ==
    {[raised |-> FALSE, value |-> r] : r \in
        {Response(200, Body("json", "none",
                            [costOfTransaction |-> 120, surveys |-> 2])),
         Response(200, Body("json", "none", [surveys |-> 2])),
         Response(200, Body("blank", "none", NoJson)),
         Response(200, Body("nonjson", "none", NoJson)),
         Response(200, Body("nonjson", "early", NoJson)),
         Response(200, Body("nonjson", "late", NoJson)),
         Response(400, Body("json", "early", [error |-> "INVALID_AREA"])),
         Response(400, Body("json", "none", [error |-> "UNAUTHORISED"])),
         Response(400, Body("blank", "none", NoJson))}}
    \cup {[raised |-> TRUE,
           value |-> <<Lit("HTTPSConnectionPool: Max retries exceeded")>>]}

Idle == pc \in {"end", "crashed"}

AiTicked == Cardinality(ticked \cap AiTickPool)

\* the user edits the API key field
EnterApiKey ==
    /\ Idle
    /\ api_key' = IF api_key = "" THEN "key" ELSE ""
    /\ pc' = "rerun"
    /\ UNCHANGED <<parked, ticked, dates_single, uploaded_file, last_active_drawing,
                   session_state, selected_resources, exc, locals, events,
                   log, call, shown, run_error>>

\* the user ticks a checkbox: a key of TickPool or the next key of AiTickPool
Tick(k) ==
    /\ Idle
    /\ k \notin ticked
    /\ \/ k \in TickPool
       \/ AiTicked < NumAiKeys /\ k = all_tuples_keys[10 + AiTicked]
    /\ ticked' = ticked \cup {k}
    /\ pc' = "rerun"
    /\ UNCHANGED <<parked, api_key, dates_single, uploaded_file, last_active_drawing,
                   session_state, selected_resources, exc, locals, events,
                   log, call, shown, run_error>>

\* the user clears a checkbox: a key of TickPool or the last ticked key of
\* AiTickPool
Untick(k) ==
    /\ Idle
    /\ k \in ticked
    /\ \/ k \in TickPool
       \/ k = all_tuples_keys[9 + AiTicked]
    /\ ticked' = ticked \ {k}
    /\ pc' = "rerun"
    /\ UNCHANGED <<parked, api_key, dates_single, uploaded_file, last_active_drawing,
                   session_state, selected_resources, exc, locals, events,
                   log, call, shown, run_error>>

\* the user flips "Latest capture only"
FlipToggle ==
    /\ Idle
    /\ dates_single' = ~dates_single
    /\ pc' = "rerun"
    /\ UNCHANGED <<parked, api_key, ticked, uploaded_file, last_active_drawing,
                   session_state, selected_resources, exc, locals, events,
                   log, call, shown, run_error>>

\* the user uploads a file
Upload(file) ==
    /\ Idle
    /\ uploaded_file # file
    /\ uploaded_file' = file
    /\ pc' = "rerun"
    /\ UNCHANGED <<parked, api_key, ticked, dates_single, last_active_drawing,
                   session_state, selected_resources, exc, locals, events,
                   log, call, shown, run_error>>

\* the user removes the uploaded file; the drawing map is shown again and
\* reports the old drawing or none
RemoveFile ==
    /\ Idle
    /\ uploaded_file.present
    /\ uploaded_file' = NoFile
    /\ last_active_drawing' \in {last_active_drawing, NoDrawing}
    /\ pc' = "rerun"
    /\ UNCHANGED <<parked, api_key, ticked, dates_single, session_state,
                   selected_resources, exc, locals, events, log, call, shown,
                   run_error>>

\* the user draws a polygon on the map, or deletes the drawings
Draw(drawing) ==
    /\ Idle
    /\ ~uploaded_file.present
    /\ last_active_drawing # drawing
    /\ last_active_drawing' = drawing
    /\ pc' = "rerun"
    /\ UNCHANGED <<parked, api_key, ticked, dates_single, uploaded_file,
                   session_state, selected_resources, exc, locals, events,
                   log, call, shown, run_error>>

\* the user clicks "Submit Estimation"
ClickSubmit ==
    /\ Idle
    /\ pc' = "rerun_submit"
    /\ UNCHANGED <<parked, widgets, session_state, selected_resources, exc, locals,
                   events, log, call, shown, run_error>>

\* the checkbox loop run over the catalog keys in reverse
checkbox_loop_reversed(checked) ==
    LET Checked(resource) == resource \in checked
        n == Len(all_tuples_keys)
    IN  SelectSeq([m \in 1..n |-> all_tuples_keys[n + 1 - m]], Checked)

\* for resource in resource_type: if st.checkbox(resource, key=resource):
\* selected_resources.append(resource)
checkbox_loop(checked) ==
    LET Checked(resource) == resource \in checked
    IN  SelectSeq(all_tuples_keys, Checked)

\* the top of the script: geodata_ready default, the checkbox loop that
\* builds selected_resources in catalog order, session_state.dates_single
ScriptTop ==
    /\ pc \in {"rerun", "rerun_submit"}
    /\ LET defaulted == IF Has("geodata_ready") THEN session_state
                        ELSE Put(session_state, "geodata_ready", FALSE)
       IN  /\ session_state' = Put(defaulted, "dates_single",
                                   capture_mode(dates_single))
           /\ selected_resources' = checkbox_loop(ticked)
    /\ pc' = IF pc = "rerun_submit" THEN "submit" ELSE "right"
    /\ exc' = <<>>
    /\ total_cost' = 0 /\ ai_counter' = 0 /\ area_sqm' = 0 /\ i' = 0
    /\ events' = <<>>
    /\ log' = <<>>
    /\ response' = NoResponse
    /\ payload' = NoPayload
    /\ shown' = <<>>
    /\ run_error' = "none"
    /\ UNCHANGED <<parked, widgets>>

\* the checks with the selection looked at before the API key
validation_error_resources_first(key, selected, geodata_ready) ==
    IF selected = <<>>
    THEN <<Lit("Please select at least one resource type.")>>
    ELSE IF key = "" THEN <<Lit("Please enter an API key.")>>
    ELSE IF ~geodata_ready
    THEN <<Lit("Either upload a geojson or select the extent on the map.")>>
    ELSE <<>>

\* if not api_key: ... elif not selected_resources: ... elif not
\* st.session_state.geodata_ready: ...; the message of the branch taken, or
\* the empty message when the else branch is
validation_error(key, selected, geodata_ready) ==
    IF key = "" THEN <<Lit("Please enter an API key.")>>
    ELSE IF selected = <<>>
    THEN <<Lit("Please select at least one resource type.")>>
    ELSE IF ~geodata_ready
    THEN <<Lit("Either upload a geojson or select the extent on the map.")>>
    ELSE <<>>

\* the checks of the submit handler, in order
Validate ==
    /\ pc = "submit"
    /\ LET message == validation_error(api_key, selected_resources,
                                       session_state["geodata_ready"])
       IN  IF message # <<>>
           THEN /\ session_state' =
                     Put(session_state, "latestErrorMessage", message)
                /\ pc' = "error_modal"
           ELSE /\ session_state' = session_state
                /\ pc' = "try"
    /\ UNCHANGED <<parked, widgets, selected_resources, exc, locals, events, log,
                   call, shown, run_error>>

\* the try block: NearMapHelper(...), get_transaction_content(geometry),
\* get_cost_estimate(response), session_state['cost'] = cost
PrimaryCall ==
    /\ pc = "try"
    /\ IF ~Has("geodata")
       THEN /\ exc' = <<Lit("st.session_state has no attribute 'geodata'")>>
            /\ pc' = "except"
            /\ UNCHANGED <<parked, session_state, events, call>>
       ELSE IF "geometry" \notin DOMAIN session_state["geodata"]
       THEN /\ exc' = <<Lit("'geometry'")>>
            /\ pc' = "except"
            /\ UNCHANGED <<parked, session_state, events, call>>
       ELSE \E posted \in PostOutcomes :
            /\ payload' = [resources |-> selected_resources,
                           dates |-> session_state["dates_single"],
                           aoi |-> session_state["geodata"]["geometry"]]
            /\ IF posted.raised
               THEN /\ exc' = posted.value
                    /\ pc' = "except"
                    /\ events' = Append(events, "primary")
                    /\ UNCHANGED <<parked, session_state, response>>
               ELSE LET json == post_data(posted.value) IN
                    /\ response' = posted.value
                    /\ IF json.raised
                       THEN /\ exc' = json.value
                            /\ pc' = "except"
                            /\ events' = Append(events, "primary")
                            /\ UNCHANGED session_state
                       ELSE LET cost == get_cost_estimate(json.value) IN
                            IF cost.raised
                            THEN /\ exc' = cost.value
                                 /\ pc' = "except"
                                 /\ events' = Append(events, "primary")
                                 /\ UNCHANGED session_state
                            ELSE /\ session_state' =
                                      Put(session_state, "cost", cost.value)
                                 /\ pc' = "right"
                                 /\ events' = events \o <<"primary", "store">>
                                 /\ exc' = exc
    /\ UNCHANGED <<parked, widgets, selected_resources, locals, log, shown, run_error>>

\* except Exception as e: the fallback if "INVALID_AREA" in str(e), else
\* session_state['latestErrorMessage'] = str(e)
Except ==
    /\ pc = "except"
    /\ IF in_str_e(exc)
       THEN /\ pc' = "fallback"
            /\ session_state' = session_state
       ELSE /\ pc' = "error_modal"
            /\ session_state' = Put(session_state, "latestErrorMessage", exc)
    /\ UNCHANGED <<parked, widgets, selected_resources, exc, locals, events, log,
                   call, shown, run_error>>

\* OtherHelpers.seeErrorModal
seeErrorModal ==
    /\ pc = "error_modal"
    /\ pc' = "right"
    /\ IF Has("latestErrorMessage")
       THEN /\ shown' = Append(shown,
                               [dialog |-> "Error",
                                value |-> session_state["latestErrorMessage"]])
            /\ session_state' = Pop(session_state, "latestErrorMessage")
       ELSE /\ shown' = Append(shown, [dialog |-> "Error",
                                       value |-> <<Lit("Nothing to report")>>])
            /\ session_state' = session_state
    /\ UNCHANGED <<parked, widgets, selected_resources, exc, locals, events, log,
                   call, run_error>>

\* fc["features"][-1]
last_feature(fc) == fc["features"][Len(fc["features"])]

\* fc["features"][0]
first_feature(fc) == fc["features"][1]

\* the right column: the uploaded file if there is one, else the drawing
RightColumn ==
    /\ pc = "right"
    /\ IF uploaded_file.present
       THEN IF is_valid_json(uploaded_file)
            THEN LET fc == uploaded_file.json
                     ready == Put(session_state, "geodata_ready", TRUE)
                 IN  IF "features" \notin DOMAIN fc
                     THEN /\ session_state' = ready
                          /\ pc' = "crashed"
                          /\ run_error' = "KeyError"
                     ELSE IF Len(fc["features"]) = 0
                     THEN /\ session_state' = ready
                          /\ pc' = "crashed"
                          /\ run_error' = "IndexError"
                     ELSE /\ session_state' =
                               Put(ready, "geodata", first_feature(fc))
                          /\ pc' = "modal"
                          /\ run_error' = run_error
            ELSE /\ pc' = "modal"
                 /\ UNCHANGED <<parked, session_state, run_error>>
       ELSE LET fc == last_feature_collection(st_folium(last_active_drawing)) IN
            /\ pc' = "modal"
            /\ run_error' = run_error
            /\ IF fc.features # <<>>
               THEN session_state' =
                        Put(Put(session_state, "geodata_ready", TRUE),
                            "geodata", first_feature(fc))
               ELSE session_state' = session_state
    /\ UNCHANGED <<parked, widgets, selected_resources, exc, locals, events, log,
                   call, shown>>

Init ==
    /\ api_key = ""
    /\ ticked = {}
    /\ dates_single = TRUE
    /\ uploaded_file = NoFile
    /\ last_active_drawing = NoDrawing
    /\ session_state = [geodata_ready |-> FALSE, dates_single |-> "single"]
    /\ pc = "end"
    /\ selected_resources = <<>>
    /\ exc = <<>>
    /\ total_cost = 0 /\ ai_counter = 0 /\ area_sqm = 0 /\ i = 0
    /\ events = <<>>
    /\ log = <<>>
    /\ response = NoResponse
    /\ payload = NoPayload
    /\ shown = <<>>
    /\ run_error = "none"
    /\ peer = NoPeer
    /\ active = 1

Next ==
    \/ EnterApiKey
    \/ \E k \in AiTickPool \cup TickPool : Tick(k)
    \/ \E k \in AiTickPool \cup TickPool : Untick(k)
    \/ FlipToggle
    \/ \E file \in UploadFiles : Upload(file)
    \/ RemoveFile
    \/ \E drawing \in Drawings \cup {NoDrawing} : Draw(drawing)
    \/ ClickSubmit
    \/ ScriptTop
    \/ Validate
    \/ PrimaryCall
    \/ Except
    \/ seeErrorModal
    \/ EstimateArea
    \/ EnterLoop
    \/ ForResource
    \/ StoreTotal("right")
    \/ RightColumn
    \/ ResultModal

Spec == Init /\ [][Next]_vars

(***************************************************************************)
(* SpecAoi: the same script and the same user, who now also uploads files  *)
(* that are valid JSON but hold no feature, and ticks only raster:Vert.    *)
(* A run that fails at fc["features"][0] ends there (pc = "crashed"): the  *)
(* session state written before the failure is kept, the rest of the       *)
(* script, the result modal included, is not run.                          *)
(***************************************************************************)
\* valid JSON without a feature: an empty 'features' list, no 'features' key
FeaturelessFiles ==
    {[present |-> TRUE, valid |-> TRUE, json |-> FeatureCollection(<<>>)],
     [present |-> TRUE, valid |-> TRUE,
      json |-> [type |-> "FeatureCollection"]]}

\* the files the user of SpecAoi uploads
AoiFiles ==
    FeaturelessFiles
    \cup {[present |-> TRUE, valid |-> TRUE,
           json |-> FeatureCollection(<<Polygon(5000)>>)]}

\* the checkbox the user of SpecAoi ticks and clears
AoiTickPool == {<<"raster", "Vert">>}

NextAoi ==
    \/ EnterApiKey
    \/ \E k \in AoiTickPool : Tick(k)
    \/ \E k \in AoiTickPool : Untick(k)
    \/ FlipToggle
    \/ \E file \in AoiFiles : Upload(file)
    \/ RemoveFile
    \/ \E drawing \in Drawings \cup {NoDrawing} : Draw(drawing)
    \/ ClickSubmit
    \/ ScriptTop
    \/ Validate
    \/ PrimaryCall
    \/ Except
    \/ seeErrorModal
    \/ EstimateArea
    \/ EnterLoop
    \/ ForResource
    \/ StoreTotal("right")
    \/ RightColumn
    \/ ResultModal

SpecAoi == Init /\ [][NextAoi]_vars

(***************************************************************************)
(* SpecFallback: the fallback branch on its own, for every list of         *)
(* selected keys (catalog keys or not), either capture mode and every      *)
(* stored feature.                                                         *)
(***************************************************************************)
\* a key no catalog entry exists for
UnknownKey == <<"raster", "Unknown">>

\* the keys outside the aiPacks pool that the lists are built from
OtherKeys ==
    << <<"raster", "Vert">>, <<"trueOrthoAiPacks", "building">>,
       <<"aiImpactAssessment", "postcat">>, UnknownKey >>

\* the keys that may follow the list s: the next aiPacks key of the catalog,
\* or a key of OtherKeys that comes after those already in s.  The lists are
\* thus all interleavings of a prefix of the aiPacks keys with a
\* subsequence of OtherKeys.
NextKeys(s) ==
    LET ais == Cardinality(Range(s) \cap AiPool)
        used == {n \in 1..Len(OtherKeys) : OtherKeys[n] \in Range(s)}
    IN  (IF ais < NumAiKeys THEN {all_tuples_keys[9 + ais]} ELSE {})
        \cup {OtherKeys[n] : n \in {m \in 1..Len(OtherKeys) :
                                      \A u \in used : u < m}}

RECURSIVE InputLists(_)
InputLists(n) ==
    IF n = 0 THEN {<<>>}
    ELSE LET shorter == InputLists(n - 1) IN
         shorter \cup UNION {{Append(s, k) : k \in NextKeys(s)} : s \in shorter}

Features ==
    {Polygon(100), Polygon(5000), PolygonWithHoles(100, 400),
     NoGeometry, NoCoordinates, Unprojectable}

InitFallback ==
    /\ api_key = "key"
    /\ ticked = {}
    /\ dates_single \in BOOLEAN
    /\ uploaded_file = NoFile
    /\ last_active_drawing = NoDrawing
    /\ \E f \in Features :
         session_state = [geodata_ready |-> TRUE, geodata |-> f,
                          dates_single |-> capture_mode(dates_single)]
    /\ selected_resources \in InputLists(NumAiKeys + Len(OtherKeys))
    /\ pc = "fallback"
    /\ response = Response(400, Body("json", "early", [error |-> "INVALID_AREA"]))
    /\ exc = post_data(response).value
    /\ total_cost = 0 /\ ai_counter = 0 /\ area_sqm = 0 /\ i = 0
    /\ events = <<"primary">>
    /\ log = <<>>
    /\ payload = NoPayload
    /\ shown = <<>>
    /\ run_error = "none"
    /\ peer = NoPeer
    /\ active = 1

NextFallback ==
    \/ EstimateArea
    \/ EnterLoop
    \/ ForResource
    \/ StoreTotal("modal")
    \/ ResultModal

SpecFallback == InitFallback /\ [][NextFallback]_vars

(***************************************************************************)
(* SpecSessions: two sessions, each in the fallback branch of a submit.    *)
(* A session has its own widget values, its own st.session_state and its   *)
(* own script run, whose names (total_cost, ai_counter, ...) are those of  *)
(* that run; the catalog is built anew by each get_all_resources() call.   *)
(* The server runs one session at a time and may switch between them       *)
(* after any step.                                                         *)
(***************************************************************************)
\* the state of a session at the entry of the fallback branch
FallbackEntry(toggle, feature, keys) ==
    [present |-> TRUE,
     api_key |-> "key", ticked |-> Range(keys), dates_single |-> toggle,
     uploaded_file |-> NoFile, last_active_drawing |-> feature,
     session_state |-> [geodata_ready |-> TRUE, geodata |-> feature,
                        dates_single |-> capture_mode(toggle)],
     pc |-> "fallback", selected_resources |-> keys,
     exc |-> post_data(Response(400, Body("json", "early",
                                          [error |-> "INVALID_AREA"]))).value,
     total_cost |-> 0, ai_counter |-> 0, area_sqm |-> 0, i |-> 0,
     events |-> <<"primary">>, log |-> <<>>,
     response |-> Response(400, Body("json", "early",
                                     [error |-> "INVALID_AREA"])),
     payload |-> [resources |-> keys, dates |-> capture_mode(toggle),
                  aoi |-> feature["geometry"]],
     shown |-> <<>>, run_error |-> "none"]

\* the running session, as it is parked when the server turns to the other
Running ==
    [present |-> TRUE,
     api_key |-> api_key, ticked |-> ticked, dates_single |-> dates_single,
     uploaded_file |-> uploaded_file,
     last_active_drawing |-> last_active_drawing,
     session_state |-> session_state, pc |-> pc,
     selected_resources |-> selected_resources, exc |-> exc,
     total_cost |-> total_cost, ai_counter |-> ai_counter,
     area_sqm |-> area_sqm, i |-> i, events |-> events, log |-> log,
     response |-> response, payload |-> payload, shown |-> shown,
     run_error |-> run_error]

\* the running session is s
Resume(s) ==
    /\ api_key' = s.api_key
    /\ ticked' = s.ticked
    /\ dates_single' = s.dates_single
    /\ uploaded_file' = s.uploaded_file
    /\ last_active_drawing' = s.last_active_drawing
    /\ session_state' = s.session_state
    /\ pc' = s.pc
    /\ selected_resources' = s.selected_resources
    /\ exc' = s.exc
    /\ total_cost' = s.total_cost
    /\ ai_counter' = s.ai_counter
    /\ area_sqm' = s.area_sqm
    /\ i' = s.i
    /\ events' = s.events
    /\ log' = s.log
    /\ response' = s.response
    /\ payload' = s.payload
    /\ shown' = s.shown
    /\ run_error' = s.run_error

\* a switch that leaves total_cost and ai_counter where they are, as if the
\* two were names of the process and not of the script run
Switch_SharedCounters ==
    /\ peer.present
    /\ peer' = Running
    /\ active' = 3 - active
    /\ Resume([peer EXCEPT !.total_cost = total_cost,
                           !.ai_counter = ai_counter])

\* the server stops running one session's script and runs the other's
Switch ==
    /\ peer.present
    /\ peer' = Running
    /\ active' = 3 - active
    /\ Resume(peer)

\* the selections of the two sessions: aiImpactAssessment:postcat after no,
\* one or NumAiKeys aiPacks keys
SessionLists ==
    {SubSeq(all_tuples_keys, 9, 8 + n) \o << <<"aiImpactAssessment", "postcat">> >> :
        n \in {0, 1, NumAiKeys}}

SessionFeatures == {Polygon(100), Polygon(5000)}

InitSessions ==
    /\ \E toggle \in BOOLEAN, feature \in SessionFeatures, keys \in SessionLists :
          peer = FallbackEntry(toggle, feature, keys)
    /\ active = 1
    /\ \E toggle \in BOOLEAN, feature \in SessionFeatures, keys \in SessionLists :
          LET s == FallbackEntry(toggle, feature, keys) IN
          /\ api_key = s.api_key
          /\ ticked = s.ticked
          /\ dates_single = s.dates_single
          /\ uploaded_file = s.uploaded_file
          /\ last_active_drawing = s.last_active_drawing
          /\ session_state = s.session_state
          /\ pc = s.pc
          /\ selected_resources = s.selected_resources
          /\ exc = s.exc
          /\ total_cost = s.total_cost
          /\ ai_counter = s.ai_counter
          /\ area_sqm = s.area_sqm
          /\ i = s.i
          /\ events = s.events
          /\ log = s.log
          /\ response = s.response
          /\ payload = s.payload
          /\ shown = s.shown
          /\ run_error = s.run_error

NextSessions ==
    \/ EstimateArea
    \/ EnterLoop
    \/ ForResource
    \/ StoreTotal("modal")
    \/ ResultModal
    \/ Switch

SpecSessions == InitSessions /\ [][NextSessions]_vars

(***************************************************************************)
(* Properties of the fallback cost loop                                    *)
(***************************************************************************)
Abs(x) == IF x < 0 THEN -x ELSE x

Min(a, b) == IF a < b THEN a ELSE b

\* the integer nearest to n/d, the even one when two are equally near
Nearest(n, d) ==
    CHOOSE k \in ((n \div d) - 1)..((n \div d) + 1) :
        /\ 2 * Abs(k * d - n) <= d
        /\ (2 * Abs(k * d - n) = d => k % 2 = 0)

Mode == session_state["dates_single"]

\* tenths of a credit per 1000 m² of a catalog key in the current capture mode
ExpectedUnit(key) ==
    IF Mode = "single" THEN all_tuples[key]["Credits (single survey)"]
    ELSE all_tuples[key]["Credits (all survey data)"]

ExpectedAmount(key) == Nearest(ExpectedUnit(key) * area_sqm, 10000)

IsAi(key) == key[1] = "aiPacks"

\* number of aiPacks keys among the first n selected keys
AiKeysIn(n) == Cardinality({m \in 1..n : IsAi(selected_resources[m])})

\* number of aiPacks keys among the first n selected keys that contributed
AiAddedIn(n) ==
    Cardinality({m \in 1..n : IsAi(selected_resources[m]) /\ log[m].added})

InLoop == "loop" \in Range(events)

AllInCatalog == Range(selected_resources) \subseteq DOMAIN all_tuples

\* C1: in the fallback loop an aiPacks key adds its contribution exactly when
\* fewer than 7 aiPacks keys before it have contributed; ai_counter is always
\* min(7, number of aiPacks keys processed), at most 7 aiPacks keys contribute
\* and a later one adds 0 without raising an error.
C1_AiPackCap ==
    InLoop =>
        /\ Len(log) = i
        /\ \A n \in 1..Len(log) :
             IsAi(selected_resources[n]) =>
                /\ log[n].added <=> AiAddedIn(n - 1) < 7
                /\ ~log[n].added => log[n].amount = 0
        /\ ai_counter = Min(7, AiKeysIn(i))
        /\ AiAddedIn(Len(log)) <= 7
        /\ (AllInCatalog => run_error = "none")

\* the 8th aiPacks key has just been skipped, over a positive area
C1_Witness ==
    /\ pc = "loop"
    /\ i >= 8
    /\ AiKeysIn(i) = 8
    /\ IsAi(selected_resources[i])
    /\ ~log[i].added
    /\ area_sqm = 5000
    /\ total_cost >= 7 * 25

\* C2: a key whose namespace is not "aiPacks" always adds its full
\* contribution, whatever ai_counter is and wherever the key sits, and leaves
\* ai_counter unchanged.
C2_OtherNamespacesUncapped ==
    [][(pc = "loop" /\ pc' = "loop" /\ i' = i + 1
            /\ ~IsAi(selected_resources[i'])) =>
        /\ total_cost' = total_cost + ExpectedAmount(selected_resources[i'])
        /\ ai_counter' = ai_counter]_vars

\* trueOrthoAiPacks:building and aiImpactAssessment:postcat have been added in
\* full after 7 aiPacks keys had contributed
C2_Witness ==
    /\ pc = "loop"
    /\ i = 9
    /\ ai_counter = 7
    /\ AiKeysIn(7) = 7
    /\ selected_resources[8] = <<"trueOrthoAiPacks", "building">>
    /\ selected_resources[9] = <<"aiImpactAssessment", "postcat">>
    /\ Mode = "all"
    /\ area_sqm = 5000
    /\ total_cost = 7 * 38 + 38 + 262

\* the keys that contribute: all but the aiPacks keys after the 7th
Contributes(n) == ~IsAi(selected_resources[n]) \/ AiKeysIn(n - 1) < 7

RECURSIVE SumOfRounded(_)
SumOfRounded(n) ==
    IF n = 0 THEN 0
    ELSE SumOfRounded(n - 1)
         + (IF Contributes(n) THEN ExpectedAmount(selected_resources[n]) ELSE 0)

\* C3: the total is the sum, over the contributing keys, of
\* round(unitCost * areaSqm / 1000) rounded for each resource on its own;
\* raster:Vert in Single mode over 5000 m² contributes 50.
C3_PerResourceRounding ==
    (InLoop /\ pc # "crashed") =>
        /\ total_cost = SumOfRounded(i)
        /\ (pc \in {"modal", "end"} /\ Has("cost") =>
                session_state["cost"] = SumOfRounded(Len(selected_resources)))
        /\ (/\ i = 1
            /\ selected_resources[1] = <<"raster", "Vert">>
            /\ Mode = "single"
            /\ area_sqm = 5000) => total_cost = 50

\* three aiPacks keys of 0.5 credit each over 100 m² were all rounded to 0
C3_Witness ==
    /\ pc = "modal"
    /\ Len(selected_resources) = 3
    /\ AiKeysIn(3) = 3
    /\ Mode = "single"
    /\ area_sqm = 100
    /\ session_state["cost"] = 0

\* C7: a selected key that is not in the catalog makes the evaluation fail at
\* that key with a KeyError; it is neither skipped nor counted as 0, no total
\* is produced and no 'cost' is stored.
C7_UnknownKeyFails ==
    /\ \A n \in 1..Len(log) : selected_resources[n] \in DOMAIN all_tuples
    /\ pc = "crashed" =>
          /\ run_error = "KeyError"
          /\ selected_resources[i + 1] \notin DOMAIN all_tuples
    /\ ~AllInCatalog =>
          /\ ~Has("cost")
          /\ "store" \notin Range(events)
          /\ shown = <<>>
          /\ pc \notin {"modal", "end"}

\* the loop stopped at an unknown key after two keys had been added
C7_Witness ==
    /\ pc = "crashed"
    /\ run_error = "KeyError"
    /\ i = 2
    /\ selected_resources[3] = UnknownKey
    /\ total_cost > 0
    /\ ~Has("cost")

\* what a feature must have for its area to be computed
WellFormed(f) ==
    /\ "geometry" \in DOMAIN f
    /\ "coordinates" \in DOMAIN f["geometry"]
    /\ f["geometry"]["coordinates"]["projectable"]

\* C8: estimate_area never propagates an error: a feature whose geometry
\* cannot be read or projected gives 0, any other one the projected area.
C8_EstimateAreaNeverRaises ==
    "estimate_area" \in Range(events) =>
        /\ pc = "crashed" => InLoop
        /\ pc # "crashed" =>
             area_sqm = IF WellFormed(session_state["geodata"])
                        THEN session_state["geodata"]["geometry"]["coordinates"]["area"]
                        ELSE 0

\* the estimator was given a geometry without coordinates and returned 0
C8_Witness ==
    /\ pc = "catalog"
    /\ session_state["geodata"] = NoCoordinates
    /\ area_sqm = 0
    /\ run_error = "none"

\* C9: when the estimated area is 0 the total is 0 for every non-empty
\* selection of catalog keys, in either mode and any order; the 0 is stored as
\* 'cost' and displayed like any estimate, without an error.
C9_ZeroAreaZeroCost ==
    (InLoop /\ area_sqm = 0 /\ AllInCatalog /\ selected_resources # <<>>) =>
        /\ total_cost = 0
        /\ run_error = "none"
        /\ ~Has("latestErrorMessage")
        /\ pc = "modal" => session_state["cost"] = 0
        /\ pc = "end" =>
             /\ shown = <<[dialog |-> "Estimation Outcome", value |-> 0]>>
             /\ ~Has("cost")

\* a zero total over an unprojectable area was displayed
C9_Witness ==
    /\ pc = "end"
    /\ session_state["geodata"] = Unprojectable
    /\ Len(selected_resources) >= 3
    /\ AllInCatalog
    /\ shown = <<[dialog |-> "Estimation Outcome", value |-> 0]>>

\* C10: over an area >= 0 the total of catalog keys is a non-negative
\* integer: total_cost starts at 0, is a natural number after every iteration
\* and no iteration decreases it.
C10_TotalMonotone ==
    /\ []((InLoop /\ area_sqm >= 0) =>
            /\ total_cost \in Nat
            /\ (i = 0 => total_cost = 0)
            /\ (Has("cost") => session_state["cost"] \in Nat))
    /\ [][(pc = "loop" /\ area_sqm >= 0) => total_cost' >= total_cost]_vars

\* a positive total was stored after several keys over a positive area
C10_Witness ==
    /\ pc = "modal"
    /\ area_sqm = 100
    /\ Len(selected_resources) >= 3
    /\ selected_resources[1] = <<"raster", "Vert">>
    /\ session_state["cost"] >= 3

(***************************************************************************)
(* Properties of the submit handler                                        *)
(***************************************************************************)
InRun == pc \notin {"rerun", "rerun_submit"}

\* the capture mode the toggle stands for
ToggleMode == IF dates_single THEN "single" ELSE "all"

ToggleColumn ==
    IF dates_single THEN "Credits (single survey)"
    ELSE "Credits (all survey data)"

\* C4: the capture mode is "single" exactly when the toggle is on and "all"
\* when it is off; the loop takes every key's single-survey credits in the
\* first case and its all-survey credits in the second, and the same mode is
\* what the primary call sends as "dates".
C4_CaptureMode ==
    InRun =>
        /\ session_state["dates_single"] = ToggleMode
        /\ "primary" \in Range(events) => payload.dates = ToggleMode
        /\ \A n \in 1..Len(log) :
             log[n].unit_cost = all_tuples[selected_resources[n]][ToggleColumn]

\* with the toggle off the loop priced raster:Vert at 15 credits after the
\* primary call was sent "all"
C4_Witness ==
    /\ pc = "loop"
    /\ ~dates_single
    /\ i >= 1
    /\ selected_resources[1] = <<"raster", "Vert">>
    /\ log[1].unit_cost = 150
    /\ payload.dates = "all"

\* the service rejected the area: an error status whose body names INVALID_AREA
Rejected == response.status_code # 200 /\ response.text.token # "none"

\* C5: after a submit that passes validation the fallback runs if and only if
\* the primary call failed because the service rejected the area; any other
\* failure runs no fallback, stores no 'cost' and is stored as
\* latestErrorMessage and shown.
C5_FallbackIffAreaRejected ==
    /\ (pc = "fallback" \/ "estimate_area" \in Range(events)) => Rejected
    /\ (exc # <<>> /\ pc \in {"error_modal", "right", "modal", "end"}) =>
          \/ Rejected /\ "estimate_area" \in Range(events)
          \/ /\ ~Rejected
             /\ ~Has("cost")
             /\ "estimate_area" \notin Range(events)
             /\ IF pc = "error_modal"
                THEN /\ Has("latestErrorMessage")
                     /\ session_state["latestErrorMessage"] = exc
                ELSE shown = <<[dialog |-> "Error", value |-> exc]>>

IsPrefix(s, t) == Len(s) <= Len(t) /\ \A n \in 1..Len(s) : s[n] = t[n]

\* the primary call returned a JSON body with a costOfTransaction
Succeeded ==
    /\ "primary" \in Range(events)
    /\ response.status_code = 200
    /\ response.text.kind = "json"
    /\ "costOfTransaction" \in DOMAIN response.text.value

\* C6: within one submit the primary call comes first; the area estimator is
\* called only after that call has failed, once, and before any resource is
\* added; the loop then runs once.  After a successful primary call neither
\* runs and the stored cost is the service's costOfTransaction.
C6_SubmitOrder ==
    /\ \/ IsPrefix(events, <<"primary", "store">>)
       \/ IsPrefix(events, <<"primary", "estimate_area", "loop", "store">>)
    /\ "estimate_area" \in Range(events) => exc # <<>> /\ ~Succeeded
    /\ (Len(log) > 0 \/ total_cost # 0) => InLoop
    /\ ("estimate_area" \in Range(events) /\ pc \in {"right", "modal", "end"})
          => events = <<"primary", "estimate_area", "loop", "store">>
    /\ Succeeded =>
          /\ events = <<"primary", "store">>
          /\ pc \in {"right", "modal"} =>
                session_state["cost"] = response.text.value["costOfTransaction"]
          /\ pc = "end" =>
                shown = <<[dialog |-> "Estimation Outcome",
                           value |-> response.text.value["costOfTransaction"]]>>

\* a submit ended after primary call, estimator, loop and store, in this order
C6_Witness ==
    /\ pc = "end"
    /\ events = <<"primary", "estimate_area", "loop", "store">>
    /\ Len(log) >= 2
    /\ shown = <<[dialog |-> "Estimation Outcome", value |-> total_cost]>>
    /\ total_cost > 0

(***************************************************************************)
(* Order of the selected keys                                              *)
(***************************************************************************)
\* the list s with the keys at positions a and b exchanged
Swap(s, a, b) ==
    [n \in 1..Len(s) |-> IF n = a THEN s[b] ELSE IF n = b THEN s[a] ELSE s[n]]

\* number of aiPacks keys in the whole selection
AiSelected == AiKeysIn(Len(selected_resources))

\* the sum of the contributions of a set of catalog keys, in no order
RECURSIVE SetSum(_)
SetSum(S) ==
    IF S = {} THEN 0
    ELSE LET k == CHOOSE x \in S : TRUE
         IN  ExpectedAmount(k) + SetSum(S \ {k})

\* the fallback has stored its total
Stored == pc = "modal" /\ Has("cost")

\* C11: for a selection of catalog keys with at most 7 aiPacks keys, in either
\* capture mode and over any area, the fallback total depends on the set of
\* keys only: it is the sum of the contributions of the set, and exchanging
\* any key of the list with the last one gives the same total (every
\* reordering is a succession of such exchanges).
C11_OrderIrrelevantUnderCap ==
    (Stored /\ AllInCatalog /\ AiSelected <= 7) =>
        /\ session_state["cost"] = SetSum(Range(selected_resources))
        /\ total_cost_of(selected_resources, Mode, area_sqm) =
               [raised |-> FALSE, value |-> session_state["cost"]]
        /\ \A a \in 1..Len(selected_resources) :
              total_cost_of(Swap(selected_resources, a, Len(selected_resources)),
                            Mode, area_sqm).value
                  = session_state["cost"]

\* a total was stored for 7 aiPacks keys interleaved with keys of three other
\* namespaces
C11_Witness ==
    /\ Stored
    /\ AiSelected = 7
    /\ Len(selected_resources) = 10
    /\ selected_resources[1] = <<"raster", "Vert">>
    /\ selected_resources[5] = <<"trueOrthoAiPacks", "building">>
    /\ selected_resources[10] = <<"aiImpactAssessment", "postcat">>
    /\ area_sqm = 5000
    /\ session_state["cost"] > 0

\* the lists of catalog keys of the model that hold more than 7 aiPacks keys
OverCapLists ==
    {s \in InputLists(NumAiKeys + Len(OtherKeys)) :
        /\ Range(s) \subseteq DOMAIN all_tuples
        /\ Cardinality({n \in 1..Len(s) : IsAi(s[n])}) > 7}

\* C12 as stated: with more than 7 aiPacks keys selected the total is not
\* invariant under reordering: for the capture mode and area of the
\* evaluation there are a selection and two orderings of it whose totals
\* differ.
C12_OrderChangesTotal ==
    (Stored /\ area_sqm > 0) =>
        \E s \in OverCapLists : \E a \in 1..Len(s) : \E b \in (a + 1)..Len(s) :
            total_cost_of(Swap(s, a, b), Mode, area_sqm)
                # total_cost_of(s, Mode, area_sqm)

\* C12, amended: with more than 7 aiPacks keys selected the order decides
\* which aiPacks keys add 0 (those after the first 7 in iteration order) but
\* not the total: every aiPacks entry has the same credits, so the total is 7
\* aiPacks contributions plus those of the other keys and exchanging any key
\* of the list with the last one gives the same total.
C12_OrderDecidesZeroedKeysOnly ==
    (Stored /\ AllInCatalog /\ AiSelected > 7) =>
        /\ \A n \in 1..Len(selected_resources) :
              ~log[n].added <=>
                  (IsAi(selected_resources[n]) /\ AiKeysIn(n - 1) >= 7)
        /\ session_state["cost"] =
              7 * ExpectedAmount(<<"aiPacks", "building">>)
              + SetSum({k \in Range(selected_resources) : ~IsAi(k)})
        /\ \A a \in 1..Len(selected_resources) :
              total_cost_of(Swap(selected_resources, a, Len(selected_resources)),
                            Mode, area_sqm)
                  = [raised |-> FALSE, value |-> session_state["cost"]]

\* a total was stored for 8 aiPacks keys, the 8th of which added nothing,
\* followed by a key of another namespace
C12_Witness ==
    /\ Stored
    /\ AiSelected = 8
    /\ Len(selected_resources) = 10
    /\ IsAi(selected_resources[9])
    /\ ~log[9].added
    /\ log[10].added
    /\ area_sqm = 5000
    /\ Mode = "all"
    /\ session_state["cost"] >= 7 * 38

(***************************************************************************)
(* The area of interest                                                    *)
(***************************************************************************)
\* the uploaded file is a collection with at least one feature
UploadWithFeatures ==
    /\ uploaded_file.present
    /\ uploaded_file.valid
    /\ "features" \in DOMAIN uploaded_file.json
    /\ Len(uploaded_file.json["features"]) >= 1

FeaturesOfUpload == uploaded_file.json["features"]

\* C13: while a collection with n >= 1 features is uploaded, the stored area
\* of interest is its first feature; the geometry sent to the primary
\* service, the estimated area and the fallback total are those of the first
\* feature whatever the other features are.
C13_FirstFeatureOnly ==
    (InRun /\ UploadWithFeatures) =>
        /\ pc \in {"submit", "try", "except", "fallback", "catalog", "loop",
                   "error_modal", "modal", "end"} =>
              session_state["geodata"] = FeaturesOfUpload[1]
        /\ "primary" \in Range(events) =>
              payload.aoi = FeaturesOfUpload[1]["geometry"]
        /\ InLoop =>
              /\ area_sqm = IF WellFormed(FeaturesOfUpload[1])
                            THEN FeaturesOfUpload[1]["geometry"]["coordinates"]["area"]
                            ELSE 0
              /\ total_cost = SumOfRounded(i)

\* a fallback total over the 5000 m² of the first of two uploaded features
\* was displayed
C13_Witness ==
    /\ pc = "end"
    /\ UploadWithFeatures
    /\ FeaturesOfUpload = <<Polygon(5000), Polygon(100)>>
    /\ events = <<"primary", "estimate_area", "loop", "store">>
    /\ payload.aoi = Polygon(5000)["geometry"]
    /\ area_sqm = 5000
    /\ total_cost >= 50
    /\ shown = <<[dialog |-> "Estimation Outcome", value |-> total_cost]>>

(***************************************************************************)
(* The selection the checkboxes produce                                    *)
(***************************************************************************)
\* where a catalog key stands in the catalog's key order
Position(key) == CHOOSE n \in 1..Len(all_tuples_keys) : all_tuples_keys[n] = key

\* the ticked aiPacks keys with fewer than 7 ticked aiPacks keys before them
\* in catalog order
FirstSevenTicked ==
    {k \in ticked :
        /\ IsAi(k)
        /\ Cardinality({j \in ticked : IsAi(j) /\ Position(j) < Position(k)}) < 7}

\* C14: in every script run selected_resources holds the ticked keys, each
\* once, in the catalog's key order; every selected key is a catalog key, so
\* the lookup of the fallback loop never fails; and the aiPacks keys that
\* contribute are the first 7 ticked ones in catalog order.
C14_SelectionInCatalogOrder ==
    InRun =>
        /\ Range(selected_resources) = ticked
        /\ Range(selected_resources) \subseteq DOMAIN all_tuples
        /\ \A m, n \in 1..Len(selected_resources) :
              m < n => Position(selected_resources[m])
                           < Position(selected_resources[n])
        /\ InLoop =>
              /\ pc = "crashed" => "store" \in Range(events)
              /\ \A n \in 1..Len(log) :
                    /\ lookup(selected_resources[n]).raised = FALSE
                    /\ IsAi(selected_resources[n]) =>
                          (log[n].added <=>
                              selected_resources[n] \in FirstSevenTicked)

\* 8 aiPacks keys are ticked, aiPacks:building not among them, raster:Vert
\* before them; the loop added the first 7 of them and skipped the 8th
C14_Witness ==
    /\ pc = "loop"
    /\ i = 9
    /\ <<"aiPacks", "building">> \notin ticked
    /\ selected_resources[1] = <<"raster", "Vert">>
    /\ selected_resources[2] = <<"aiPacks", "building_char">>
    /\ AiKeysIn(9) = 8
    /\ log[8].added
    /\ ~log[9].added
    /\ Cardinality(FirstSevenTicked) = 7

(***************************************************************************)
(* The catalog data                                                        *)
(***************************************************************************)
\* an entry's all-survey credits are 1.5 times its single-survey credits,
\* hence at least as many, and neither is negative
WellPriced(entry) ==
    /\ entry["Credits (single survey)"] >= 0
    /\ entry["Credits (all survey data)"] >= 0
    /\ entry["Credits (all survey data)"] >= entry["Credits (single survey)"]
    /\ 2 * entry["Credits (all survey data)"]
          = 3 * entry["Credits (single survey)"]

\* C15: for every entry of the catalog, in main.py and in nearmap_helper.py,
\* "Credits (all survey data)" is 1.5 times "Credits (single survey)", hence
\* greater than or equal to it, and both are non-negative; so is every unit
\* cost the fallback loop reads.
C15_AllSurveyAtLeastSingle ==
    /\ \A key \in DOMAIN all_tuples : WellPriced(all_tuples[key])
    /\ \A key \in DOMAIN nearmap_helper_all_tuples :
          WellPriced(nearmap_helper_all_tuples[key])
    /\ \A n \in 1..Len(log) :
          /\ log[n].unit_cost >= 0
          /\ log[n].unit_cost
                >= all_tuples[selected_resources[n]]["Credits (single survey)"]
          /\ log[n].unit_cost
                <= all_tuples[selected_resources[n]]["Credits (all survey data)"]

\* with the toggle off the loop priced aiImpactAssessment:postcat at 52.5
\* credits, 1.5 times its 35 single-survey credits
C15_Witness ==
    /\ pc = "loop"
    /\ i = Len(selected_resources)
    /\ selected_resources[i] = <<"aiImpactAssessment", "postcat">>
    /\ Mode = "all"
    /\ log[i].unit_cost = 525
    /\ 2 * log[i].unit_cost
          = 3 * all_tuples[selected_resources[i]]["Credits (single survey)"]

(***************************************************************************)
(* The responses of the service                                            *)
(***************************************************************************)
\* what C18 says of the outcome r of reading the response resp
ReadAsClaimed(resp, r) ==
    /\ ~r.raised <=>
          /\ resp.status_code = 200
          /\ resp.text.kind # "blank"
          /\ resp.text.kind = "json"
    /\ ~r.raised => r.value = resp.text.value
    /\ resp.status_code # 200 =>
          /\ Len(r.value) = 4
          /\ r.value[1].shown = "API request failed with status code "
          /\ r.value[2].shown = ToString(resp.status_code)
          /\ r.value[4].shown = "response.text"
          /\ r.value[4].token = resp.text.token
    /\ (resp.status_code = 200 /\ resp.text.kind = "blank") =>
          r.value = <<[token |-> "none", shown |-> "API returned empty response"]>>
    /\ (resp.status_code = 200 /\ resp.text.kind = "nonjson") =>
          /\ Len(r.value) = 3
          /\ r.value[1].shown
                = "Failed to parse JSON response. Response content: "
          /\ r.value[2].shown = "response.text[:200]"
          /\ r.value[2].token = "early" <=> resp.text.token = "early"

\* C18: post_data and get_data return the parsed JSON value only when the
\* status is 200, the body is not blank and the body parses; otherwise they
\* raise, checking the status first (the message carries the status code and
\* the full text), then the blank body, then the parse failure (the message
\* carries the first 200 characters); the submit handler catches what
\* post_data raised.
C18_ResponseChecksInOrder ==
    ("primary" \in Range(events) /\ response # NoResponse) =>
        /\ ReadAsClaimed(response, post_data(response))
        /\ ReadAsClaimed(response, get_data(response))
        /\ post_data(response).raised => exc = post_data(response).value

\* a response with status 400 and a blank body was reported by its status
C18_Witness ==
    /\ pc = "error_modal"
    /\ response.status_code = 400
    /\ response.text.kind = "blank"
    /\ exc[1].shown = "API request failed with status code "
    /\ exc[2].shown = "400"
    /\ session_state["latestErrorMessage"] = exc

(***************************************************************************)
(* The drawing                                                             *)
(***************************************************************************)
\* C19: whatever the user has drawn, last_feature_collection gives None
\* (nothing rendered, or no active drawing) or a collection with exactly one
\* feature of type Feature: the last active drawing itself, or the Feature
\* whose geometry it is when it arrives as a bare geometry; with no file
\* uploaded that feature is the stored area of interest.
C19_AtMostOneDrawnFeature ==
    LET fc == last_feature_collection(st_folium(last_active_drawing)) IN
    /\ last_feature_collection(NotRendered).none
    /\ fc.none <=> last_active_drawing = NoDrawing
    /\ ~fc.none =>
          /\ Len(fc.features) = 1
          /\ fc.features[1].type = "Feature"
          /\ IF last_active_drawing.type = "Feature"
             THEN fc.features[1] = last_active_drawing
             ELSE fc.features[1].geometry = last_active_drawing
          /\ (pc \in {"modal", "end"} /\ ~uploaded_file.present) =>
                /\ session_state["geodata_ready"]
                /\ session_state["geodata"] = fc.features[1]

\* the map reported a bare Polygon geometry and the Feature made of it was
\* stored and sent to the primary service
C19_Witness ==
    /\ pc = "end"
    /\ ~uploaded_file.present
    /\ last_active_drawing.type = "Polygon"
    /\ session_state["geodata"].type = "Feature"
    /\ session_state["geodata"].geometry = last_active_drawing
    /\ "primary" \in Range(events)
    /\ payload.aoi = last_active_drawing

(***************************************************************************)
(* The checks of a submit                                                  *)
(***************************************************************************)
\* the message of a single literal part
Message(text) == <<[token |-> "none", shown |-> text]>>

\* the text the first failing check of the current submit stores
FirstFailure ==
    IF api_key = "" THEN "Please enter an API key."
    ELSE IF selected_resources = <<>>
    THEN "Please select at least one resource type."
    ELSE "Either upload a geojson or select the extent on the map."

\* C20: a submit makes no primary call, runs no fallback and stores no cost
\* unless the API key is non-empty, a resource is selected and geodata_ready
\* is true; otherwise the first check that fails, in this order, stores its
\* message in latestErrorMessage, which the error dialog shows.  The cost
\* loop never runs on an empty selection.
C20_ValidationGuardsSubmit ==
    InRun =>
        /\ (events # <<>>
                \/ pc \in {"try", "except", "fallback", "catalog", "loop"}) =>
              /\ api_key # ""
              /\ selected_resources # <<>>
              /\ session_state["geodata_ready"]
        /\ InLoop => Len(selected_resources) >= 1
        /\ (pc = "error_modal" /\ exc = <<>>) =>
              /\ api_key = "" \/ selected_resources = <<>>
                    \/ ~session_state["geodata_ready"]
              /\ events = <<>>
              /\ Has("latestErrorMessage")
              /\ session_state["latestErrorMessage"] = Message(FirstFailure)
        /\ (pc = "right" /\ exc = <<>> /\ shown # <<>>) =>
              /\ events = <<>>
              /\ shown = <<[dialog |-> "Error", value |-> Message(FirstFailure)]>>

\* a submit with an API key, no resource and no area of interest was
\* answered with the message of the second check
C20_Witness ==
    /\ pc = "right"
    /\ api_key # ""
    /\ selected_resources = <<>>
    /\ ~session_state["geodata_ready"]
    /\ events = <<>>
    /\ shown = <<[dialog |-> "Error",
                  value |-> Message("Please select at least one resource type.")]>>

(***************************************************************************)
(* The estimated area                                                      *)
(***************************************************************************)
\* C17: the value estimate_area returns is never negative: for every stored
\* feature (a simple polygon, a polygon with holes, a malformed or
\* unprojectable geometry) it is the area of the reprojected polygon, which
\* is >= 0, or the failure default 0.
C17_AreaNeverNegative ==
    ("estimate_area" \in Range(events) /\ pc # "crashed") => area_sqm >= 0

(***************************************************************************)
(* Independent sessions                                                    *)
(***************************************************************************)
\* the fallback total a session gets when nothing else runs: the loop over
\* its own selection, capture mode and stored feature
AloneCost(s) ==
    total_cost_of(s.selected_resources, s.session_state["dates_single"],
                  estimate_area(s.session_state["geodata"]).value).value

\* the session s has the cost it would get alone, stored or displayed
HasOwnCost(s) ==
    /\ s.pc = "modal" =>
          /\ "cost" \in DOMAIN s.session_state
          /\ s.session_state["cost"] = AloneCost(s)
    /\ s.pc = "end" =>
          s.shown = <<[dialog |-> "Estimation Outcome", value |-> AloneCost(s)]>>

\* the keys of st.session_state other than 'cost'
KeptKeys(state) == DOMAIN state \ {"cost"}

\* C16: however the fallback evaluations of two sessions are interleaved,
\* each session stores and displays the cost it would get running alone; and
\* a step of one session's evaluation leaves the other session as it is and
\* changes, of its own session, neither the widget values nor the selected
\* keys nor any key of st.session_state but 'cost' (the stored feature,
\* geodata_ready and the capture mode stay).
C16_SessionsDoNotInterfere ==
    /\ [](HasOwnCost(Running) /\ HasOwnCost(peer))
    /\ [][(pc \in {"fallback", "catalog", "loop"} /\ active' = active) =>
            /\ peer' = peer
            /\ UNCHANGED widgets
            /\ selected_resources' = selected_resources
            /\ KeptKeys(session_state') = KeptKeys(session_state)
            /\ \A k \in KeptKeys(session_state) :
                  session_state'[k] = session_state[k]]_vars

\* the second session has stored the total of 9 keys, 7 aiPacks keys
\* counted, while the first one, with another area and capture mode, is in
\* the middle of its own loop
C16_Witness ==
    /\ active = 2
    /\ pc = "modal"
    /\ Len(selected_resources) > 8
    /\ ai_counter = 7
    /\ session_state["cost"] = AloneCost(Running)
    /\ peer.pc = "loop"
    /\ peer.i = 3
    /\ peer.ai_counter = 3
    /\ peer.area_sqm # area_sqm
    /\ peer.dates_single # dates_single

(***************************************************************************)
(* The stored area of interest                                             *)
(***************************************************************************)
\* C21: in every state of a session, geodata_ready = True implies that the
\* session state holds a geodata feature; an uploaded file that is valid
\* JSON but has no 'features' list, or an empty one, does not leave
\* geodata_ready set to True without a geodata feature.
C21_ReadyImpliesGeodata ==
    (Has("geodata_ready") /\ session_state["geodata_ready"])
        => Has("geodata")

\* no file is uploaded and the map reports no drawing
NoAoiPresent == ~uploaded_file.present /\ last_active_drawing = NoDrawing

\* C22: a submit is accepted only for an area of interest that is present:
\* after any sequence of uploads, removals and drawings, a submit made
\* while there is no uploaded file and no drawn polygon does not pass the
\* checks, makes no pricing call and no fallback estimate, and (the API key
\* and the selection being given) stores "Either upload a geojson or select
\* the extent on the map."
C22_SubmitNeedsPresentAoi ==
    (InRun /\ NoAoiPresent) =>
        /\ pc \notin {"try", "except", "fallback"}
        /\ events = <<>>
        /\ (pc = "error_modal" /\ api_key # "" /\ selected_resources # <<>>) =>
               /\ Has("latestErrorMessage")
               /\ session_state["latestErrorMessage"] =
                      <<Lit("Either upload a geojson or select the extent on the map.")>>

(***************************************************************************)
(* The outcome of a submit                                                 *)
(***************************************************************************)
\* this run has stored a 'cost'
StoredNow == "store" \in Range(events)

\* this run has shown the error modal
ErrorShown == \E n \in 1..Len(shown) : shown[n].dialog = "Error"

\* this run has shown the result modal
EstimateShown ==
    \E n \in 1..Len(shown) : shown[n].dialog = "Estimation Outcome"

\* C23: every submit click ends with exactly one outcome: the handler is
\* left with a 'cost' stored or with latestErrorMessage stored and shown,
\* never both and never neither; a stored 'cost' is shown by the result
\* modal in the same run and removed from the session state once shown, so
\* that a run which stored no cost displays no estimate.
C23_OneOutcomePerSubmit ==
    /\ [][(pc # "rerun" /\ pc' = "right") => ~(StoredNow' <=> ErrorShown')]_vars
    /\ [](Idle => /\ StoredNow => (EstimateShown /\ ~Has("cost"))
                  /\ EstimateShown => StoredNow
                  /\ ~Has("latestErrorMessage"))

(***************************************************************************)
(* The two copies of the catalog                                           *)
(***************************************************************************)
\* the keys "<namespace>:<product>" for each namespace of the list and each
\* product of its resource list
KeysOf(names, products) ==
    UNION {{<<names[a], products[names[a]][b]>> :
               b \in 1..Len(products[names[a]])} : a \in 1..Len(names)}

Columns == {"Credits (single survey)", "Credits (all survey data)"}

\* the fallback loop run on the catalog it is handed
RECURSIVE TotalWith(_, _, _, _, _, _, _)
TotalWith(catalog, keys, n, total, counter, mode, area) ==
    IF n > Len(keys) THEN total
    ELSE LET namespace == split(keys[n])[1]
             amount == contribution(unit_cost_of(catalog[keys[n]], mode), area)
         IN  IF not_aiPacks(namespace)
             THEN TotalWith(catalog, keys, n + 1, accumulate(total, amount),
                            counter, mode, area)
             ELSE IF under_cap(counter)
             THEN TotalWith(catalog, keys, n + 1, accumulate(total, amount),
                            counter + 1, mode, area)
             ELSE TotalWith(catalog, keys, n + 1, total, counter, mode, area)

\* C24: the two copies of the priced catalog agree: get_all_resources of
\* main.py and of nearmap_helper.py return the same namespaces, the same
\* resource lists and, for every key, the same single-survey and all-survey
\* credits; in both, the keys of all_tuples are exactly the keys
\* "<namespace>:<product>" for each namespace of 'namespaces' and each
\* product of resources[namespace]; and the total the fallback stores is the
\* total the loop gives on the copy of nearmap_helper.py.
C24_CatalogCopiesAgree ==
    /\ (pc = "loop" /\ i = 0) =>
          /\ nearmap_helper_namespaces = namespaces
          /\ nearmap_helper_resources = resources
          /\ DOMAIN nearmap_helper_all_tuples = DOMAIN all_tuples
          /\ \A key \in DOMAIN all_tuples :
                /\ DOMAIN all_tuples[key] = Columns
                /\ DOMAIN nearmap_helper_all_tuples[key] = Columns
                /\ \A column \in Columns :
                      nearmap_helper_all_tuples[key][column] =
                          all_tuples[key][column]
          /\ DOMAIN resources = Range(namespaces)
          /\ DOMAIN all_tuples = KeysOf(namespaces, resources)
          /\ DOMAIN nearmap_helper_all_tuples =
                 KeysOf(nearmap_helper_namespaces, nearmap_helper_resources)
          /\ Range(all_tuples_keys) = DOMAIN all_tuples
    /\ (Stored /\ AllInCatalog) =>
          session_state["cost"] =
              TotalWith(nearmap_helper_all_tuples, selected_resources, 1, 0, 0,
                        Mode, area_sqm)

\* a total over keys of three namespaces, aiPacks keys beyond the cap among
\* them, was stored, and the copy of nearmap_helper.py gives the same
C24_Witness ==
    /\ Stored
    /\ AllInCatalog
    /\ AiSelected = NumAiKeys
    /\ {<<"raster", "Vert">>, <<"aiImpactAssessment", "postcat">>}
           \subseteq Range(selected_resources)
    /\ Mode = "all"
    /\ area_sqm = 5000
    /\ session_state["cost"] > 0
    /\ session_state["cost"] =
           TotalWith(nearmap_helper_all_tuples, selected_resources, 1, 0, 0,
                     Mode, area_sqm)

====
